---- MODULE Spec2Model ----
(***************************************************************************)
(* Model of the Configuration Manager backend service                      *)
(* (src/platform/backend-services/configuration-manager/main.py).          *)
(*                                                                         *)
(* Configuration payloads are loosely typed (metadata and spec are         *)
(* Dict[str, Any]), so every JSON value is modelled as a record tagged     *)
(* with its kind "k": absent (key missing), null, str, int, bool, float,   *)
(* map.  A mapping whose iteration order matters is a sequence of entries. *)
(***************************************************************************)
EXTENDS Integers, Sequences, FiniteSets, TLC

VARIABLES store, now, git_repo, resp, template_files, job, clients, engine, windmill_client

vars == <<store, now, git_repo, resp, template_files, job, clients, engine,
          windmill_client>>

\* What the configuration routes of the CRUD API never touch.
rest == <<template_files, job, clients, engine, windmill_client>>

(***************************************************************************)
(* Bounds                                                                  *)
(***************************************************************************)
MaxReplicas == 1
MaxTime == 2

(***************************************************************************)
(* JSON values                                                             *)
(***************************************************************************)
Absent == [k |-> "absent"]
Null == [k |-> "null"]
JStr(s) == [k |-> "str", s |-> s]
JInt(n) == [k |-> "int", n |-> n]
JBool(b) == [k |-> "bool", n |-> IF b THEN 1 ELSE 0]
JFloat(n) == [k |-> "float", n |-> n]
JMap(items) == [k |-> "map", items |-> items]

\* Python truth value of x, where x is the result of d.get(key).
Truthy(x) ==
    CASE x.k = "absent" -> FALSE
      [] x.k = "null" -> FALSE
      [] x.k = "str" -> x.s # ""
      [] x.k \in {"int", "bool", "float"} -> x.n # 0
      [] x.k = "map" -> x.items # <<>>
      [] OTHER -> TRUE

\* isinstance(x, int): bool is a subclass of int in Python.
IsInstanceInt(x) == x.k \in {"int", "bool"}

\* A value on which .get / .items can be called.
IsMapping(x) == x.k \in {"map", "requirements", "resources", "env", "annotations"}

(***************************************************************************)
(* Data shapes                                                             *)
(***************************************************************************)
ResourceRequirements(cpu, memory) == [k |-> "requirements", cpu |-> cpu, memory |-> memory]

Resources(requests, limits) == [k |-> "resources", requests |-> requests, limits |-> limits]

EnvironmentConfig(replicas, resources) ==
    [k |-> "env", replicas |-> replicas, resources |-> resources]

EnvEntry(name, cfg) == [name |-> name, cfg |-> cfg]

\* datetime.utcnow().isoformat() read when the clock shows t.
JTime(t) == [k |-> "time", t |-> t]

Annotations(created, lastModified) ==
    [k |-> "annotations", created |-> created, lastModified |-> lastModified]

Metadata(name, namespace, annotations) ==
    [name |-> name, namespace |-> namespace, annotations |-> annotations]

ConfigSpec(application, environments) ==
    [application |-> application, environments |-> environments]

ApplicationConfiguration(metadata, spec) ==
    [apiVersion |-> "platform.idp/v1alpha1", kind |-> "ApplicationConfiguration",
     metadata |-> metadata, spec |-> spec]

NoConfig == [k |-> "none"]

(***************************************************************************)
(* validate_configuration                                                  *)
(***************************************************************************)
NameRequired == "Configuration name is required"
NamespaceRequired == "Namespace is required"
ApplicationRequired == "Application name is required"
NoEnvironments == "No environments configured"
InvalidReplicas(env_name) == "Invalid replica count for environment " \o env_name
ResourcesNotSpecified(env_name) ==
    "Resource requests/limits not fully specified for environment " \o env_name

ValidationResult_WarningsInvalidate(errors, warnings) ==
    [valid |-> Len(errors) = 0 /\ Len(warnings) = 0, errors |-> errors, warnings |-> warnings]

ValidationResult(errors, warnings) ==
    [valid |-> Len(errors) = 0, errors |-> errors, warnings |-> warnings]

\* not isinstance(replicas, int) or replicas <= 0
ReplicasRejected(replicas) == ~IsInstanceInt(replicas) \/ replicas.n <= 0

\* resources = env_config.get("resources", {}): the default applies only
\* when the key is missing.
ResourcesOrDefault(env_config) ==
    IF env_config.resources.k = "absent" THEN Resources(Absent, Absent)
    ELSE env_config.resources

ResourcesIncomplete(resources) == ~Truthy(resources.requests) \/ ~Truthy(resources.limits)

\* The body of the for loop for one environment.  acc carries errors,
\* warnings and whether an exception has left the function.
ValidateEnvironment_ResourceError(acc, env_name, env_config) ==
    IF ~IsMapping(env_config) THEN [acc EXCEPT !.raised = TRUE]
    ELSE LET errors1 == IF ReplicasRejected(env_config.replicas)
                        THEN Append(acc.errors, InvalidReplicas(env_name))
                        ELSE acc.errors
             resources == ResourcesOrDefault(env_config)
         IN  IF ~IsMapping(resources)
             THEN [acc EXCEPT !.raised = TRUE, !.errors = errors1]
             ELSE IF ResourcesIncomplete(resources)
                  THEN [acc EXCEPT !.errors = Append(errors1, ResourcesNotSpecified(env_name))]
                  ELSE [acc EXCEPT !.errors = errors1]

ValidateEnvironment(acc, env_name, env_config) ==
    IF ~IsMapping(env_config) THEN [acc EXCEPT !.raised = TRUE]
    ELSE LET errors1 == IF ReplicasRejected(env_config.replicas)
                        THEN Append(acc.errors, InvalidReplicas(env_name))
                        ELSE acc.errors
             resources == ResourcesOrDefault(env_config)
         IN  IF ~IsMapping(resources)
             THEN [acc EXCEPT !.raised = TRUE, !.errors = errors1]
             ELSE IF ResourcesIncomplete(resources)
                  THEN [acc EXCEPT !.errors = errors1,
                                   !.warnings = Append(acc.warnings, ResourcesNotSpecified(env_name))]
                  ELSE [acc EXCEPT !.errors = errors1]

RECURSIVE ValidateEnvironments(_, _, _)
ValidateEnvironments(acc, items, i) ==
    IF acc.raised \/ i > Len(items) THEN acc
    ELSE ValidateEnvironments(ValidateEnvironment(acc, items[i].name, items[i].cfg), items, i + 1)

\* The three required-field checks, in source order.
BasicValidation(config) ==
    (IF ~Truthy(config.metadata.name) THEN <<NameRequired>> ELSE <<>>)
    \o (IF ~Truthy(config.metadata.namespace) THEN <<NamespaceRequired>> ELSE <<>>)
    \o (IF ~Truthy(config.spec.application) THEN <<ApplicationRequired>> ELSE <<>>)

\* environments = config.spec.get("environments", {})
EnvironmentsOrDefault(config) ==
    IF config.spec.environments.k = "absent" THEN JMap(<<>>)
    ELSE config.spec.environments

\* The outcome of validate_configuration: either an exception left the
\* function (raised) or a ValidationResult was returned.
validate_configuration(config) ==
    LET errors0 == BasicValidation(config)
        environments == EnvironmentsOrDefault(config)
        warnings0 == IF ~Truthy(environments) THEN <<NoEnvironments>> ELSE <<>>
        acc0 == [raised |-> FALSE, errors |-> errors0, warnings |-> warnings0]
        acc == IF ~IsMapping(environments) THEN [acc0 EXCEPT !.raised = TRUE]
               ELSE ValidateEnvironments(acc0, environments.items, 1)
    IN  IF acc.raised THEN [raised |-> TRUE]
        ELSE [raised |-> FALSE, result |-> ValidationResult(acc.errors, acc.warnings)]

(***************************************************************************)
(* Input domains                                                           *)
(***************************************************************************)
EnvNames == {"dev", "prod"}

NameValues == {Absent, JStr(""), JStr("cfg1")}
NamespaceValues == {Absent, JStr(""), JStr("ns1")}
ApplicationValues == {Absent, JStr(""), JStr("app")}

ReplicaValues ==
    {Absent, JStr("3"), JBool(TRUE), JBool(FALSE)} \cup {JInt(n) : n \in -1..MaxReplicas}

RequirementValues == {Absent, ResourceRequirements("100m", "128Mi")}

ResourceValues ==
    {Absent, Null} \cup {Resources(r, l) : r \in RequirementValues, l \in RequirementValues}

EnvConfigValues ==
    {JStr("oops")} \cup {EnvironmentConfig(r, res) : r \in ReplicaValues, res \in ResourceValues}

\* Mappings from environment name to value, in every insertion order.
EnvMaps(values) ==
    {<<>>}
    \cup {<<EnvEntry(n, c)>> : n \in EnvNames, c \in values}
    \cup {<<EnvEntry(e[1], e[3]), EnvEntry(e[2], e[4])>> :
            e \in {x \in EnvNames \X EnvNames \X values \X values : x[1] # x[2]}}

EnvironmentsValues == {Absent, Null, JStr("oops")} \cup {JMap(m) : m \in EnvMaps(EnvConfigValues)}

ValidationConfigs ==
    {ApplicationConfiguration(Metadata(n, ns, Absent), ConfigSpec(a, e)) :
        n \in NameValues, ns \in NamespaceValues, a \in ApplicationValues,
        e \in EnvironmentsValues}

(***************************************************************************)
(* State                                                                   *)
(*   store    the applicationconfigurations held by the custom-resource    *)
(*            API, by (name, namespace)                                    *)
(*   now      the clock read by datetime.utcnow()                          *)
(*   git_repo whether GIT_REPO_URL is set                                  *)
(*   resp     the last request handled and its response                    *)
(*   template_files  the *.yaml files of templates_path, in glob order     *)
(*   job      the run_flow invocation of the workflow client               *)
(*   clients  the update requests in flight, by client                     *)
(***************************************************************************)
Names == {"cfg1", "cfg2"}
Namespaces == {"ns1"}
Ids == Names \X Namespaces

NoResponse ==
    [op |-> "none", id |-> <<"", "">>, status |-> 0, input |-> NoConfig, config |-> NoConfig,
     body |-> NoConfig, backend |-> "not_called", sync |-> "not_called", t0 |-> 0, t1 |-> 0,
     validation |-> NoConfig]

\* templates_path does not exist.
NoTemplatesPath == [exists |-> FALSE, files |-> <<>>]

\* No run_flow invocation.
NoJob == [pc |-> "idle"]

\* No update request in flight.
NoClients == <<>>

\* No workflow engine is being talked to.
NoEngine == [submit |-> "none"]

(***************************************************************************)
(* The agent tools' Windmill client                                        *)
(* (src/windmill/langchain-tools/idp-platform-tools.py)                    *)
(***************************************************************************)
\* The default of WindmillConfig.timeout, in seconds.
DefaultTimeout == 300

WindmillConfig(base_url, token, workspace) ==
    [k |-> "windmill_config", base_url |-> base_url, token |-> token,
     workspace |-> workspace, timeout |-> DefaultTimeout]

\* WindmillConfig()
DefaultWindmillConfig == WindmillConfig("http://localhost:8000", Null, "idp")

\* WindmillClient.__init__: the session carries the bearer token only when
\* the token is truthy.
WindmillClient(config) ==
    [config |-> config,
     authorization |-> IF Truthy(config.token) THEN JStr("Bearer " \o config.token.s) ELSE Absent]

\* windmill_client = WindmillClient(WindmillConfig()) at import.
ImportedClient == WindmillClient(DefaultWindmillConfig)

Init ==
    /\ store = [id \in Ids |-> NoConfig]
    /\ now = 0
    /\ git_repo \in BOOLEAN
    /\ resp = NoResponse
    /\ template_files = NoTemplatesPath
    /\ job = NoJob
    /\ clients = NoClients
    /\ engine = NoEngine
    /\ windmill_client = ImportedClient

(***************************************************************************)
(* The custom-resource API (external collaborator).  fault is a failure    *)
(* of the API that does not depend on the request.                         *)
(***************************************************************************)
Faults == {"none", "500"}

IsStoredId(name, namespace) ==
    /\ name.k = "str" /\ namespace.k = "str"
    /\ <<name.s, namespace.s>> \in Ids

get_namespaced_custom_object(st, id, fault) ==
    IF fault # "none" THEN [status |-> fault, result |-> NoConfig]
    ELSE IF st[id] = NoConfig THEN [status |-> "404", result |-> NoConfig]
    ELSE [status |-> "ok", result |-> st[id]]

create_namespaced_custom_object(st, namespace, body, fault) ==
    IF fault # "none" THEN [status |-> fault, store |-> st, result |-> NoConfig]
    ELSE IF ~IsStoredId(body.metadata.name, namespace)
         THEN [status |-> "422", store |-> st, result |-> NoConfig]
    ELSE LET id == <<body.metadata.name.s, namespace.s>>
         IN  IF st[id] # NoConfig THEN [status |-> "409", store |-> st, result |-> NoConfig]
             ELSE [status |-> "ok", store |-> [st EXCEPT ![id] = body], result |-> body]

MergeKey_StoredWins(stored, patch) ==
    IF stored.k = "absent" THEN patch ELSE stored

\* A key of a merge patch: missing keeps the stored value, null removes it.
MergeKey(stored, patch) ==
    IF patch.k = "absent" THEN stored
    ELSE IF patch.k = "null" THEN Absent
    ELSE patch

MergeResources(stored, patch) ==
    IF patch.k = "resources" /\ stored.k = "resources"
    THEN Resources(MergeKey(stored.requests, patch.requests), MergeKey(stored.limits, patch.limits))
    ELSE MergeKey(stored, patch)

MergeEnvironment(stored, patch) ==
    IF patch.k = "env" /\ stored.k = "env"
    THEN EnvironmentConfig(MergeKey(stored.replicas, patch.replicas),
                           MergeResources(stored.resources, patch.resources))
    ELSE MergeKey(stored, patch)

EnvKeys(items) == {items[i].name : i \in 1..Len(items)}
EnvAt(items, name) == (CHOOSE i \in 1..Len(items) : items[i].name = name)

MergeEnvironments(stored, patch) ==
    IF patch.k = "map" /\ stored.k = "map"
    THEN LET kept == [i \in 1..Len(stored.items) |->
                        IF stored.items[i].name \in EnvKeys(patch.items)
                        THEN EnvEntry(stored.items[i].name,
                                      MergeEnvironment(stored.items[i].cfg,
                                          patch.items[EnvAt(patch.items, stored.items[i].name)].cfg))
                        ELSE stored.items[i]]
             added == SelectSeq(patch.items, LAMBDA e : e.name \notin EnvKeys(stored.items))
         IN  JMap(kept \o added)
    ELSE MergeKey(stored, patch)

MergeAnnotations(stored, patch) ==
    IF patch.k = "annotations" /\ stored.k = "annotations"
    THEN Annotations(MergeKey(stored.created, patch.created),
                     MergeKey(stored.lastModified, patch.lastModified))
    ELSE MergeKey(stored, patch)

MergePatch(stored, body) ==
    ApplicationConfiguration(
        Metadata(MergeKey(stored.metadata.name, body.metadata.name),
                 MergeKey(stored.metadata.namespace, body.metadata.namespace),
                 MergeAnnotations(stored.metadata.annotations, body.metadata.annotations)),
        ConfigSpec(MergeKey(stored.spec.application, body.spec.application),
                   MergeEnvironments(stored.spec.environments, body.spec.environments)))

patch_namespaced_custom_object(st, id, body, fault) ==
    IF fault # "none" THEN [status |-> fault, store |-> st, result |-> NoConfig]
    ELSE IF st[id] = NoConfig THEN [status |-> "404", store |-> st, result |-> NoConfig]
    ELSE LET merged == MergePatch(st[id], body)
         IN  [status |-> "ok", store |-> [st EXCEPT ![id] = merged], result |-> merged]

delete_namespaced_custom_object(st, id, fault) ==
    IF fault # "none" THEN [status |-> fault, store |-> st]
    ELSE IF st[id] = NoConfig THEN [status |-> "404", store |-> st]
    ELSE [status |-> "ok", store |-> [st EXCEPT ![id] = NoConfig]]

(***************************************************************************)
(* Mirror sync.  The body of the try block only logs; outcome is what the  *)
(* sync inside the try block does.                                         *)
(***************************************************************************)
SyncOutcomes == {"ok", "failed"}

sync_to_git_Propagates(configured, outcome) ==
    IF ~configured THEN [attempt |-> "unconfigured", raised |-> FALSE]
    ELSE [attempt |-> outcome, raised |-> outcome = "failed"]

sync_to_git(configured, outcome) ==
    IF ~configured THEN [attempt |-> "unconfigured", raised |-> FALSE]
    ELSE [attempt |-> outcome, raised |-> FALSE]

remove_from_git(configured, outcome) ==
    IF ~configured THEN [attempt |-> "unconfigured", raised |-> FALSE]
    ELSE [attempt |-> outcome, raised |-> FALSE]

(***************************************************************************)
(* ConfigurationManager: get, create, update, delete                       *)
(***************************************************************************)
\* config.metadata.setdefault("annotations", {}): only a missing key is set.
SetDefaultAnnotations(config) ==
    IF config.metadata.annotations.k = "absent"
    THEN [config EXCEPT !.metadata.annotations = Annotations(Absent, Absent)]
    ELSE config

\* The stamping of create_configuration; t1 and t2 are the two clock reads.
\* Item assignment on an annotations value that is not a mapping raises.
StampCreate(config, t1, t2) ==
    LET c == SetDefaultAnnotations(config)
    IN  IF ~IsMapping(c.metadata.annotations) THEN [raised |-> TRUE, config |-> c]
        ELSE [raised |-> FALSE,
              config |-> [c EXCEPT !.metadata.annotations.created = JTime(t1),
                                   !.metadata.annotations.lastModified = JTime(t2)]]

StampUpdate_AlsoCreated(config, t) ==
    LET c == SetDefaultAnnotations(config)
    IN  IF ~IsMapping(c.metadata.annotations) THEN [raised |-> TRUE, config |-> c]
        ELSE [raised |-> FALSE,
              config |-> [c EXCEPT !.metadata.annotations.created = JTime(t),
                                   !.metadata.annotations.lastModified = JTime(t)]]

\* The stamping of update_configuration.
StampUpdate(config, t) ==
    LET c == SetDefaultAnnotations(config)
    IN  IF ~IsMapping(c.metadata.annotations) THEN [raised |-> TRUE, config |-> c]
        ELSE [raised |-> FALSE,
              config |-> [c EXCEPT !.metadata.annotations.lastModified = JTime(t)]]

\* An exception that is not an ApiException is not caught by the manager and
\* is answered with 500 by the framework, like the HTTPException(500).
Failed(st, config, backend, sync) ==
    [store |-> st, status |-> 500, config |-> config, body |-> NoConfig,
     backend |-> backend, sync |-> sync]

\* return ApplicationConfiguration(**result): the object the backend answered,
\* not the submitted one.
ReturnedResource_Submitted(config, result) == config

ReturnedResource(config, result) == result

get_configuration_NotFoundOnAnyError(st, id, fault) ==
    LET r == get_namespaced_custom_object(st, id, fault)
    IN  IF r.status = "ok" THEN [raised |-> FALSE, result |-> r.result, backend |-> r.status]
        ELSE [raised |-> FALSE, result |-> NoConfig, backend |-> r.status]

get_configuration(st, id, fault) ==
    LET r == get_namespaced_custom_object(st, id, fault)
    IN  IF r.status = "ok" THEN [raised |-> FALSE, result |-> r.result, backend |-> r.status]
        ELSE IF r.status = "404" THEN [raised |-> FALSE, result |-> NoConfig, backend |-> r.status]
        ELSE [raised |-> TRUE, result |-> NoConfig, backend |-> r.status]

create_configuration(st, configured, config, fault, outcome, t1, t2) ==
    LET stamped == StampCreate(config, t1, t2)
    IN  IF stamped.raised THEN Failed(st, stamped.config, "not_called", "not_called")
        ELSE IF stamped.config.metadata.namespace.k = "absent"
             THEN Failed(st, stamped.config, "not_called", "not_called")
        ELSE LET r == create_namespaced_custom_object(st, stamped.config.metadata.namespace,
                                                      stamped.config, fault)
             IN  IF r.status # "ok" THEN Failed(st, stamped.config, r.status, "not_called")
                 ELSE LET s == sync_to_git(configured, outcome)
                      IN  IF s.raised THEN Failed(r.store, stamped.config, r.status, s.attempt)
                          ELSE [store |-> r.store, status |-> 200, config |-> stamped.config,
                                body |-> ReturnedResource(stamped.config, r.result),
                                backend |-> r.status, sync |-> s.attempt]

update_configuration(st, configured, config, fault, outcome, t) ==
    LET stamped == StampUpdate(config, t)
    IN  IF stamped.raised THEN Failed(st, stamped.config, "not_called", "not_called")
        ELSE IF \/ stamped.config.metadata.namespace.k = "absent"
                \/ stamped.config.metadata.name.k = "absent"
             THEN Failed(st, stamped.config, "not_called", "not_called")
        ELSE IF ~IsStoredId(stamped.config.metadata.name, stamped.config.metadata.namespace)
             THEN Failed(st, stamped.config, "404", "not_called")
        ELSE LET id == <<stamped.config.metadata.name.s, stamped.config.metadata.namespace.s>>
                 r == patch_namespaced_custom_object(st, id, stamped.config, fault)
             IN  IF r.status # "ok" THEN Failed(st, stamped.config, r.status, "not_called")
                 ELSE LET s == sync_to_git(configured, outcome)
                      IN  IF s.raised THEN Failed(r.store, stamped.config, r.status, s.attempt)
                          ELSE [store |-> r.store, status |-> 200, config |-> stamped.config,
                                body |-> ReturnedResource(stamped.config, r.result),
                                backend |-> r.status, sync |-> s.attempt]

\* except ApiException in delete_configuration: the status the caller sees.
DeleteApiException_AlwaysRaises(status) == 500

DeleteApiException(status) == IF status # "404" THEN 500 ELSE 200

\* delete_configuration with the removal from the mirror also on the 404
\* path.
delete_configuration_RemovesOnAbsent(st, configured, id, fault, outcome) ==
    LET r == delete_namespaced_custom_object(st, id, fault)
        s == remove_from_git(configured, outcome)
    IN  IF r.status \notin {"ok", "404"}
        THEN [store |-> r.store, status |-> DeleteApiException(r.status), config |-> NoConfig,
              body |-> NoConfig, backend |-> r.status, sync |-> "not_called"]
        ELSE [store |-> r.store, status |-> IF s.raised THEN 500 ELSE 200,
              config |-> NoConfig, body |-> NoConfig, backend |-> r.status,
              sync |-> s.attempt]

delete_configuration(st, configured, id, fault, outcome) ==
    LET r == delete_namespaced_custom_object(st, id, fault)
    IN  IF r.status # "ok"
        THEN [store |-> r.store, status |-> DeleteApiException(r.status), config |-> NoConfig,
              body |-> NoConfig, backend |-> r.status, sync |-> "not_called"]
        ELSE LET s == remove_from_git(configured, outcome)
             IN  [store |-> r.store, status |-> IF s.raised THEN 500 ELSE 200,
                  config |-> NoConfig, body |-> NoConfig, backend |-> r.status,
                  sync |-> s.attempt]

(***************************************************************************)
(* Routes                                                                  *)
(***************************************************************************)
EnvInvalid == JMap(<<EnvEntry("dev", EnvironmentConfig(JInt(0), Absent))>>)
EnvWarning == JMap(<<EnvEntry("dev", EnvironmentConfig(JInt(1), Absent))>>)

\* Request bodies of create and update.
CrudConfigs ==
    {ApplicationConfiguration(Metadata(JStr("cfg1"), JStr("ns1"), a), ConfigSpec(k[1], k[2])) :
        a \in {Absent, Annotations(JTime(0), Absent)},
        k \in {<<JStr(""), EnvInvalid>>, <<JStr("app"), EnvWarning>>}}
    \cup {ApplicationConfiguration(Metadata(Absent, JStr("ns1"), Absent),
                                   ConfigSpec(JStr("app"), EnvWarning)),
          ApplicationConfiguration(Metadata(JStr("cfg1"), Absent, Absent),
                                   ConfigSpec(JStr("app"), EnvWarning)),
          ApplicationConfiguration(Metadata(JStr("cfg1"), JStr("ns1"), Null),
                                   ConfigSpec(JStr("app"), EnvWarning))}

IdOf(config) ==
    IF IsStoredId(config.metadata.name, config.metadata.namespace)
    THEN <<config.metadata.name.s, config.metadata.namespace.s>>
    ELSE <<"", "">>

GetConfigurationRoute(id, fault) ==
    LET r == get_configuration(store, id, fault)
    IN  /\ resp' = [NoResponse EXCEPT !.op = "get", !.id = id,
                        !.status = IF r.raised THEN 500
                                   ELSE IF r.result = NoConfig THEN 404 ELSE 200,
                        !.body = r.result, !.backend = r.backend, !.t0 = now, !.t1 = now]
        /\ UNCHANGED <<store, now, git_repo, rest>>

CreateConfigurationRoute(config, fault, outcome, d) ==
    /\ now + d <= MaxTime
    /\ LET r == create_configuration(store, git_repo, config, fault, outcome, now, now + d)
       IN  /\ store' = r.store
           /\ resp' = [NoResponse EXCEPT !.op = "create", !.id = IdOf(config),
                           !.status = r.status, !.input = config, !.config = r.config,
                           !.body = r.body, !.backend = r.backend, !.sync = r.sync,
                           !.t0 = now, !.t1 = now + d]
    /\ now' = now + d
    /\ UNCHANGED <<git_repo, rest>>

UpdateConfigurationRoute(id, config, fault, outcome) ==
    LET routed == [config EXCEPT !.metadata.name = JStr(id[1]),
                                 !.metadata.namespace = JStr(id[2])]
        r == update_configuration(store, git_repo, routed, fault, outcome, now)
    IN  /\ store' = r.store
        /\ resp' = [NoResponse EXCEPT !.op = "update", !.id = id,
                        !.status = r.status, !.input = routed, !.config = r.config,
                        !.body = r.body, !.backend = r.backend, !.sync = r.sync,
                        !.t0 = now, !.t1 = now]
        /\ UNCHANGED <<now, git_repo, rest>>

\* return {"message": "Configuration deleted successfully"}
DeletedMessage == [k |-> "message", message |-> "Configuration deleted successfully"]

DeleteConfigurationRoute(id, fault, outcome) ==
    LET r == delete_configuration(store, git_repo, id, fault, outcome)
    IN  /\ store' = r.store
        /\ resp' = [NoResponse EXCEPT !.op = "delete", !.id = id, !.status = r.status,
                        !.body = IF r.status = 200 THEN DeletedMessage ELSE NoConfig,
                        !.backend = r.backend, !.sync = r.sync, !.t0 = now, !.t1 = now]
        /\ UNCHANGED <<now, git_repo, rest>>

\* An exception leaving the handler is answered with 500 by the framework.
ValidateConfigurationRoute(config) ==
    LET v == validate_configuration(config)
    IN  /\ resp' = [NoResponse EXCEPT !.op = "validate", !.input = config, !.config = config,
                        !.status = IF v.raised THEN 500 ELSE 200,
                        !.validation = v, !.t0 = now, !.t1 = now]
        /\ UNCHANGED <<store, now, git_repo, rest>>

\* Time passes between requests.
Tick ==
    /\ now < MaxTime
    /\ now' = now + 1
    /\ UNCHANGED <<store, git_repo, resp, rest>>

Get == \E id \in Ids, fault \in Faults : GetConfigurationRoute(id, fault)

Create ==
    \E config \in CrudConfigs, fault \in Faults, outcome \in SyncOutcomes, d \in 0..1 :
        CreateConfigurationRoute(config, fault, outcome, d)

Update ==
    \E id \in Ids, config \in CrudConfigs, fault \in Faults, outcome \in SyncOutcomes :
        UpdateConfigurationRoute(id, config, fault, outcome)

Delete ==
    \E id \in Ids, fault \in Faults, outcome \in SyncOutcomes :
        DeleteConfigurationRoute(id, fault, outcome)

Validate == \E config \in CrudConfigs : ValidateConfigurationRoute(config)

Next == Get \/ Create \/ Update \/ Delete \/ Validate \/ Tick

Spec == Init /\ [][Next]_vars

(***************************************************************************)
(* validate_configuration over the payloads the boundary accepts: the      *)
(* request is drawn first, then handled.                                   *)
(***************************************************************************)
ValidateRequest(config) == [NoResponse EXCEPT !.op = "request", !.input = config]

InitValidate ==
    /\ store = [id \in Ids |-> NoConfig]
    /\ now = 0
    /\ git_repo = FALSE
    /\ template_files = NoTemplatesPath
    /\ job = NoJob
    /\ clients = NoClients
    /\ engine = NoEngine
    /\ windmill_client = ImportedClient
    /\ resp \in {ValidateRequest(config) : config \in ValidationConfigs}

NextValidate == resp.op = "request" /\ ValidateConfigurationRoute(resp.input)

SpecValidate == InitValidate /\ [][NextValidate]_vars

(***************************************************************************)
(* Properties                                                              *)
(***************************************************************************)
Validated == resp.op = "validate"
Returned == Validated /\ ~resp.validation.raised
Result == resp.validation.result

InSeq(x, seq) == \E i \in 1..Len(seq) : seq[i] = x
Prefix(seq, n) == [i \in 1..n |-> seq[i]]

\* A required field that is missing or empty.
Missing(x) == x.k = "absent" \/ (x.k = "str" /\ x.s = "")

\* C1: whenever validate_configuration returns a ValidationResult, valid is
\* true exactly when the errors list is empty, whatever the warnings are.
C1_ValidIffNoErrors ==
    Returned => (Result.valid <=> Result.errors = <<>>)

C1_Witness ==
    /\ Returned
    /\ Result.valid
    /\ Len(Result.warnings) = 2

\* C2: for every configuration with name, namespace or application missing
\* or empty, validate_configuration returns valid = false and its errors
\* start with the error of each missing field, in the order name,
\* namespace, application.
C2_MissingFieldErrors ==
    LET m == resp.input.metadata
        expected == (IF Missing(m.name) THEN <<NameRequired>> ELSE <<>>)
                    \o (IF Missing(m.namespace) THEN <<NamespaceRequired>> ELSE <<>>)
                    \o (IF Missing(resp.input.spec.application)
                        THEN <<ApplicationRequired>> ELSE <<>>)
    IN  Validated /\ expected # <<>> =>
            /\ ~resp.validation.raised
            /\ ~Result.valid
            /\ Len(Result.errors) >= Len(expected)
            /\ Prefix(Result.errors, Len(expected)) = expected

\* C3: in a returned result, the replica error naming an environment is
\* present exactly when that environment's replica count is not a positive
\* integer; booleans and strings are not integers.
C3_ReplicaErrors ==
    Returned =>
        \A i \in 1..Len(EnvironmentsOrDefault(resp.input).items) :
            LET e == EnvironmentsOrDefault(resp.input).items[i]
                positive == e.cfg.replicas.k = "int" /\ e.cfg.replicas.n > 0
            IN  InSeq(InvalidReplicas(e.name), Result.errors) <=> ~positive

\* The configurations whose only defects are an empty or absent environment
\* map, or environments lacking resource requests or limits.
WarningOnly(config) ==
    /\ ~Missing(config.metadata.name)
    /\ ~Missing(config.metadata.namespace)
    /\ ~Missing(config.spec.application)
    /\ config.spec.environments.k \in {"absent", "map"}
    /\ \A i \in 1..Len(EnvironmentsOrDefault(config).items) :
          LET c == EnvironmentsOrDefault(config).items[i].cfg
          IN  /\ c.k = "env"
              /\ c.replicas.k = "int" /\ c.replicas.n > 0
              /\ c.resources.k \in {"absent", "resources"}

LacksResources(c) ==
    \/ c.resources.k = "absent"
    \/ c.resources.requests.k = "absent"
    \/ c.resources.limits.k = "absent"

\* C4: a configuration whose only defects are warning defects is reported
\* valid with no error, a warning for the empty environment map and exactly
\* one warning naming each environment that lacks requests or limits.
C4_WarningsDoNotBlock ==
    Validated /\ WarningOnly(resp.input) =>
        LET items == EnvironmentsOrDefault(resp.input).items
            lacking == {i \in 1..Len(items) : LacksResources(items[i].cfg)}
        IN  /\ ~resp.validation.raised
            /\ Result.valid
            /\ Result.errors = <<>>
            /\ (items = <<>> <=> InSeq(NoEnvironments, Result.warnings))
            /\ \A i \in 1..Len(items) :
                  InSeq(ResourcesNotSpecified(items[i].name), Result.warnings) <=> i \in lacking
            /\ Len(Result.warnings) = Cardinality(lacking) + (IF items = <<>> THEN 1 ELSE 0)

C4_Witness ==
    /\ Validated /\ WarningOnly(resp.input)
    /\ Len(EnvironmentsOrDefault(resp.input).items) = 2
    /\ Result.valid
    /\ Result.warnings = <<ResourcesNotSpecified("prod")>>

\* C5: validate_configuration returns a ValidationResult for every payload
\* the boundary accepts and changes neither the store nor the configuration.
C5_NeverThrows ==
    Validated =>
        /\ ~resp.validation.raised
        /\ resp.status = 200
        /\ resp.config = resp.input
        /\ \A id \in Ids : store[id] = NoConfig

\* C6: the store never holds a configuration that validate_configuration
\* reports invalid.
C6_StoreHoldsOnlyValid ==
    \A id \in Ids :
        store[id] # NoConfig =>
            LET v == validate_configuration(store[id])
            IN  ~v.raised /\ v.result.valid

\* C7: deleting an identity that is absent answers success and leaves the
\* store unchanged, also right after a successful delete of that identity;
\* every other backend failure is answered with 500.
C7_DeleteIdempotent ==
    [][\A id \in Ids, fault \in Faults, outcome \in SyncOutcomes :
          DeleteConfigurationRoute(id, fault, outcome) =>
              /\ (fault = "none" /\ store[id] = NoConfig =>
                      resp'.status = 200 /\ resp'.backend = "404" /\ store' = store)
              /\ (fault = "none" /\ resp.op = "delete" /\ resp.id = id /\ resp.status = 200 =>
                      resp'.status = 200 /\ store' = store)
              /\ (fault # "none" => resp'.status = 500 /\ store' = store)]_vars

C7_Witness ==
    /\ resp.op = "delete" /\ resp.backend = "404" /\ resp.status = 200
    /\ \E id \in Ids : store[id] # NoConfig

\* C8: when the store write of a create, update or delete succeeded, the
\* caller gets success and the store keeps the written state, whether the
\* mirror sync succeeded, failed or is not configured.
C8_SyncFailureNotSurfaced ==
    resp.op \in {"create", "update", "delete"} /\ resp.backend = "ok" =>
        /\ resp.status = 200
        /\ resp.sync \in {"ok", "failed", "unconfigured"}
        /\ (resp.op = "delete" => store[resp.id] = NoConfig)
        /\ (resp.op # "delete" => resp.body # NoConfig /\ store[resp.id] = resp.body)

C8_Witness ==
    /\ resp.op = "create" /\ resp.backend = "ok" /\ resp.sync = "failed"
    /\ resp.status = 200
    /\ store[resp.id] = resp.body

AnnotationOf(config, key) ==
    IF config.metadata.annotations.k # "annotations" THEN Absent
    ELSE IF key = "created" THEN config.metadata.annotations.created
    ELSE config.metadata.annotations.lastModified

IsStamp(x, t0, t1) == x.k = "time" /\ x.t \in t0..t1

\* C9: a create that reaches the store has stamped created and lastModified
\* with the time of the request; an update stamps lastModified only and
\* leaves created as submitted; every stored write carries the lastModified
\* stamp of that write.
C9_TimestampStamping ==
    /\ resp.op = "create" /\ resp.backend # "not_called" =>
          /\ IsStamp(AnnotationOf(resp.config, "created"), resp.t0, resp.t1)
          /\ IsStamp(AnnotationOf(resp.config, "lastModified"), resp.t0, resp.t1)
    /\ resp.op = "update" /\ resp.backend # "not_called" =>
          /\ AnnotationOf(resp.config, "created") = AnnotationOf(resp.input, "created")
          /\ IsStamp(AnnotationOf(resp.config, "lastModified"), resp.t0, resp.t1)
    /\ resp.op \in {"create", "update"} /\ resp.status = 200 =>
          /\ IsStamp(AnnotationOf(store[resp.id], "lastModified"), resp.t0, resp.t1)
          /\ AnnotationOf(store[resp.id], "lastModified") = AnnotationOf(resp.config, "lastModified")

C9_Witness ==
    /\ resp.op = "update" /\ resp.status = 200
    /\ AnnotationOf(resp.input, "created") = Absent
    /\ AnnotationOf(resp.config, "created") = Absent
    /\ AnnotationOf(resp.config, "lastModified") = JTime(MaxTime)
    /\ AnnotationOf(store[resp.id], "created") = JTime(0)

\* C10: get answers the stored configuration when present, 404 exactly when
\* the backend reports 404, 500 for every other backend failure, and never
\* changes the store.
C10_GetDistinguishesNotFound ==
    [][\A id \in Ids, fault \in Faults :
          GetConfigurationRoute(id, fault) =>
              /\ store' = store
              /\ (fault = "none" /\ store[id] # NoConfig =>
                      resp'.status = 200 /\ resp'.body = store[id])
              /\ (fault = "none" /\ store[id] = NoConfig => resp'.status = 404)
              /\ (fault # "none" => resp'.status = 500)
              /\ (resp'.status = 404 <=> resp'.backend = "404")]_vars

C10_Witness ==
    /\ resp.op = "get" /\ resp.backend = "500" /\ resp.status = 500
    /\ store[resp.id] # NoConfig

\* A full resource: an object with the four top-level keys of the model.
IsResource(x) == DOMAIN x = {"apiVersion", "kind", "metadata", "spec"}

\* C11 as stated: every mutating endpoint answers success with the full
\* resource the backend holds after the operation.
C11_MutationsReturnStored ==
    resp.op \in {"create", "update", "delete"} /\ resp.status = 200 =>
        IsResource(resp.body) /\ resp.body = store[resp.id]

\* C11 amended: create and update answer success with the full resource the
\* backend holds after the operation; delete answers with a confirmation
\* message and holds no resource for the identity.
C11_WritesReturnStored ==
    /\ resp.op \in {"create", "update"} /\ resp.status = 200 =>
          IsResource(resp.body) /\ resp.body = store[resp.id]
    /\ resp.op = "delete" /\ resp.status = 200 =>
          resp.body = DeletedMessage /\ store[resp.id] = NoConfig

C11_Witness ==
    /\ resp.op = "update" /\ resp.status = 200
    /\ resp.body = store[resp.id]
    /\ resp.body # resp.config
    /\ AnnotationOf(resp.body, "created") = JTime(0)
    /\ AnnotationOf(resp.config, "created") = Absent

(***************************************************************************)
(* _generate_manifests and preview_configuration                           *)
(***************************************************************************)
DatabaseConfig(type, size) == [k |-> "database", type |-> type, size |-> size]

CacheConfig(type, size, nodes) == [k |-> "cache", type |-> type, size |-> size, nodes |-> nodes]

\* An environment that may carry the optional database and cache sub-specs.
EnvironmentConfigWith(replicas, resources, database, cache) ==
    [k |-> "env", replicas |-> replicas, resources |-> resources,
     database |-> database, cache |-> cache]

\* env_config.get("database") / env_config.get("cache")
EnvDatabase(env_config) ==
    IF "database" \in DOMAIN env_config THEN env_config.database ELSE Absent

EnvCache(env_config) ==
    IF "cache" \in DOMAIN env_config THEN env_config.cache ELSE Absent

\* str(x) inside an f-string, for the values an application name takes.
Format(x) == IF x.k = "str" THEN x.s ELSE "None"

Manifest(kind, name, namespace, spec) ==
    [apiVersion |-> "platform.idp/v1alpha1", kind |-> kind,
     metadata |-> [name |-> name, namespace |-> namespace], spec |-> spec]

WebAppManifest_Timestamped(config) ==
    [apiVersion |-> "platform.idp/v1alpha1", kind |-> "WebApplication",
     metadata |-> [name |-> config.spec.application, namespace |-> config.metadata.namespace,
                   generated |-> JTime(now)],
     spec |-> [environments |-> EnvironmentsOrDefault(config)]]

WebAppManifest(config) ==
    Manifest("WebApplication", config.spec.application, config.metadata.namespace,
             [environments |-> EnvironmentsOrDefault(config)])

\* db_config["type"], db_config["size"]: a missing key raises.
DatabaseManifest(config, env_name, db_config) ==
    IF db_config.k # "database" \/ db_config.type.k = "absent" \/ db_config.size.k = "absent"
    THEN [raised |-> TRUE, manifests |-> <<>>]
    ELSE [raised |-> FALSE,
          manifests |-> <<Manifest("DatabaseInstance",
                                   JStr(Format(config.spec.application) \o "-" \o env_name \o "-db"),
                                   config.metadata.namespace,
                                   [type |-> db_config.type, size |-> db_config.size,
                                    environment |-> env_name])>>]

\* cache_config.get("nodes", 1)
CacheManifest(config, env_name, cache_config) ==
    IF \/ cache_config.k # "cache"
       \/ cache_config.type.k = "absent" \/ cache_config.size.k = "absent"
    THEN [raised |-> TRUE, manifests |-> <<>>]
    ELSE [raised |-> FALSE,
          manifests |-> <<Manifest("CacheInstance",
                                   JStr(Format(config.spec.application) \o "-" \o env_name \o "-cache"),
                                   config.metadata.namespace,
                                   [type |-> cache_config.type, size |-> cache_config.size,
                                    nodes |-> IF cache_config.nodes.k = "absent" THEN JInt(1)
                                              ELSE cache_config.nodes,
                                    environment |-> env_name])>>]

\* The body of the loop over the environments: the manifests one
\* environment adds, or an exception.
EnvironmentManifests_Elif(config, env_name, env_config) ==
    IF ~IsMapping(env_config) THEN [raised |-> TRUE, manifests |-> <<>>]
    ELSE IF Truthy(EnvDatabase(env_config))
         THEN DatabaseManifest(config, env_name, EnvDatabase(env_config))
         ELSE IF Truthy(EnvCache(env_config))
              THEN CacheManifest(config, env_name, EnvCache(env_config))
              ELSE [raised |-> FALSE, manifests |-> <<>>]

EnvironmentManifests(config, env_name, env_config) ==
    IF ~IsMapping(env_config) THEN [raised |-> TRUE, manifests |-> <<>>]
    ELSE LET db == IF Truthy(EnvDatabase(env_config))
                   THEN DatabaseManifest(config, env_name, EnvDatabase(env_config))
                   ELSE [raised |-> FALSE, manifests |-> <<>>]
             cache == IF Truthy(EnvCache(env_config))
                      THEN CacheManifest(config, env_name, EnvCache(env_config))
                      ELSE [raised |-> FALSE, manifests |-> <<>>]
         IN  IF db.raised THEN db
             ELSE IF cache.raised THEN cache
             ELSE [raised |-> FALSE, manifests |-> db.manifests \o cache.manifests]

RECURSIVE AllEnvironmentManifests(_, _, _, _)
AllEnvironmentManifests(acc, config, items, i) ==
    IF acc.raised \/ i > Len(items) THEN acc
    ELSE LET m == EnvironmentManifests(config, items[i].name, items[i].cfg)
         IN  AllEnvironmentManifests([raised |-> m.raised,
                                      manifests |-> acc.manifests \o m.manifests],
                                     config, items, i + 1)

\* config.spec["application"] and config.metadata["namespace"] raise when
\* the key is missing; .items() raises on a value that is not a mapping.
generate_manifests(config) ==
    IF config.spec.application.k = "absent" \/ config.metadata.namespace.k = "absent"
    THEN [raised |-> TRUE, manifests |-> <<>>]
    ELSE IF ~IsMapping(EnvironmentsOrDefault(config))
         THEN [raised |-> TRUE, manifests |-> <<>>]
    ELSE AllEnvironmentManifests([raised |-> FALSE, manifests |-> <<WebAppManifest(config)>>],
                                 config, EnvironmentsOrDefault(config).items, 1)

\* The environment names in the order yaml.dump writes them (sort_keys).
SortedEnvNames == <<"dev", "prod">>

RECURSIVE SortedItems(_, _)
SortedItems(items, i) ==
    IF i > Len(SortedEnvNames) THEN <<>>
    ELSE SelectSeq(items, LAMBDA e : e.name = SortedEnvNames[i]) \o SortedItems(items, i + 1)

\* yaml.dump(manifest, default_flow_style=False): one document, the keys of
\* every mapping in sorted order.
YamlDump(manifest) ==
    IF manifest.kind = "WebApplication"
    THEN [doc |-> [manifest EXCEPT !.spec.environments =
                      JMap(SortedItems(manifest.spec.environments.items, 1))]]
    ELSE [doc |-> manifest]

YamlSeparator == "\n---\n"

\* "\n---\n".join(yaml_docs)
RECURSIVE YamlJoin(_, _)
YamlJoin(docs, i) ==
    IF i > Len(docs) THEN <<>>
    ELSE IF i = Len(docs) THEN <<docs[i]>>
    ELSE <<docs[i], YamlSeparator>> \o YamlJoin(docs, i + 1)

\* Any exception is turned into HTTPException(500).
preview_configuration(config) ==
    LET g == generate_manifests(config)
    IN  IF g.raised THEN [raised |-> TRUE, preview |-> <<>>]
        ELSE [raised |-> FALSE,
              preview |-> YamlJoin([i \in 1..Len(g.manifests) |-> YamlDump(g.manifests[i])], 1)]

PreviewConfigurationRoute(config) ==
    LET r == preview_configuration(config)
    IN  /\ resp' = [NoResponse EXCEPT !.op = "preview", !.input = config, !.config = config,
                        !.status = IF r.raised THEN 500 ELSE 200,
                        !.body = [k |-> "preview", preview |-> r.preview],
                        !.t0 = now, !.t1 = now]
        /\ UNCHANGED <<store, now, git_repo, rest>>

(***************************************************************************)
(* Preview over the payloads the boundary accepts: the request is drawn    *)
(* first, handled, and may be submitted again later.                       *)
(***************************************************************************)
DatabaseValues ==
    {Absent, Null, DatabaseConfig(JStr("postgresql"), JStr("small")),
     DatabaseConfig(JStr("postgresql"), Absent)}

CacheValues ==
    {Absent, CacheConfig(JStr("redis"), JStr("small"), Absent),
     CacheConfig(JStr("redis"), JStr("small"), JInt(3)),
     CacheConfig(Absent, JStr("small"), Absent)}

PreviewEnvValues ==
    {JStr("oops")}
    \cup {EnvironmentConfigWith(JInt(1), Absent, db, c) : db \in DatabaseValues, c \in CacheValues}

PreviewConfigs ==
    {ApplicationConfiguration(Metadata(JStr("cfg1"), ns, Absent), ConfigSpec(a, e)) :
        ns \in {Absent, JStr("ns1")}, a \in {Absent, JStr("app")},
        e \in {Absent, Null} \cup {JMap(m) : m \in EnvMaps(PreviewEnvValues)}}

PreviewRequest(config) == [NoResponse EXCEPT !.op = "request", !.input = config]

\* What the backend may hold when a preview arrives: nothing, or a
\* configuration written earlier.
StoredBefore ==
    ApplicationConfiguration(Metadata(JStr("cfg1"), JStr("ns1"), Annotations(JTime(0), JTime(0))),
                             ConfigSpec(JStr("app"), EnvWarning))

InitPreview ==
    /\ store \in {[id \in Ids |-> NoConfig],
                  [id \in Ids |-> IF id = <<"cfg1", "ns1">> THEN StoredBefore ELSE NoConfig]}
    /\ now = 0
    /\ git_repo \in BOOLEAN
    /\ template_files = NoTemplatesPath
    /\ job = NoJob
    /\ clients = NoClients
    /\ engine = NoEngine
    /\ windmill_client = ImportedClient
    /\ resp \in {PreviewRequest(config) : config \in PreviewConfigs}

PreviewPending == resp.op = "request" /\ PreviewConfigurationRoute(resp.input)

PreviewAgain == resp.op = "preview" /\ PreviewConfigurationRoute(resp.input)

NextPreview == PreviewPending \/ PreviewAgain \/ Tick

SpecPreview == InitPreview /\ [][NextPreview]_vars

(***************************************************************************)
(* Properties of preview                                                   *)
(***************************************************************************)
Previewed == resp.op = "preview" /\ resp.status = 200

\* The documents of a joined text, without the separators between them.
Docs(text) == [i \in 1..((Len(text) + 1) \div 2) |-> text[2 * i - 1].doc]

HasSubSpec(x) == x.k \notin {"absent", "null"}

\* The kind and name of every manifest the claim expects after the
\* application manifest, for the environments from position i on.
RECURSIVE ExpectedAfter(_, _, _)
ExpectedAfter(app, items, i) ==
    IF i > Len(items) THEN <<>>
    ELSE (IF HasSubSpec(EnvDatabase(items[i].cfg))
          THEN <<[kind |-> "DatabaseInstance", name |-> JStr(app \o "-" \o items[i].name \o "-db")]>>
          ELSE <<>>)
         \o (IF HasSubSpec(EnvCache(items[i].cfg))
             THEN <<[kind |-> "CacheInstance", name |-> JStr(app \o "-" \o items[i].name \o "-cache")]>>
             ELSE <<>>)
         \o ExpectedAfter(app, items, i + 1)

SubSpecCount(items) ==
    Cardinality({i \in 1..Len(items) : HasSubSpec(EnvDatabase(items[i].cfg))})
    + Cardinality({i \in 1..Len(items) : HasSubSpec(EnvCache(items[i].cfg))})

MaxFiles == 2

ConfigurationTemplate(name, description, type, configuration) ==
    [k |-> "template", name |-> name, description |-> description, type |-> type,
     configuration |-> configuration]

\* The "configuration" mapping of a template; spec is Absent when the key
\* is missing.
TemplateConfiguration(spec) == [spec |-> spec]

BuiltinWebApplication ==
    ConfigurationTemplate(JStr("web-application"),
        JStr("Standard web application with load balancer"), JStr("web-app"),
        TemplateConfiguration(ConfigSpec(Absent, JMap(<<
            EnvEntry("development",
                EnvironmentConfig(JInt(1),
                    Resources(ResourceRequirements(JStr("100m"), JStr("128Mi")),
                              ResourceRequirements(JStr("500m"), JStr("512Mi"))))),
            EnvEntry("production",
                EnvironmentConfig(JInt(3),
                    Resources(ResourceRequirements(JStr("500m"), JStr("512Mi")),
                              ResourceRequirements(JStr("1000m"), JStr("1Gi")))))>>))))

BuiltinApiService ==
    ConfigurationTemplate(JStr("api-service"),
        JStr("REST API service with database"), JStr("api-service"),
        TemplateConfiguration(ConfigSpec(Absent, JMap(<<
            EnvEntry("development",
                EnvironmentConfigWith(JInt(1),
                    Resources(ResourceRequirements(JStr("200m"), JStr("256Mi")),
                              ResourceRequirements(JStr("500m"), JStr("512Mi"))),
                    DatabaseConfig(JStr("postgresql"), JStr("small")), Absent)),
            EnvEntry("production",
                EnvironmentConfigWith(JInt(3),
                    Resources(ResourceRequirements(JStr("500m"), JStr("512Mi")),
                              ResourceRequirements(JStr("1000m"), JStr("1Gi"))),
                    DatabaseConfig(JStr("postgresql"), JStr("large")), Absent))>>))))

builtin_templates == <<BuiltinWebApplication, BuiltinApiService>>

\* yaml.safe_load followed by ConfigurationTemplate(**template_data): a file
\* that does not parse, does not hold a mapping, or lacks a required field
\* raises.
LoadTemplate(template_file) ==
    IF \/ template_file.k # "template"
       \/ \E f \in {"name", "description", "type"} : template_file[f].k # "str"
       \/ template_file.configuration = Absent
    THEN [raised |-> TRUE]
    ELSE [raised |-> FALSE, template |-> template_file]

\* One pass of the loop body without the try/except around the load.
LoadOrSkip_Unguarded(loaded, later) ==
    IF loaded.raised \/ later.raised THEN [raised |-> TRUE, templates |-> <<>>]
    ELSE [raised |-> FALSE, templates |-> <<loaded.template>> \o later.templates]

\* One pass of the loop body: a file that fails to load is logged and
\* skipped, a loaded template is appended before the later ones.
LoadOrSkip(loaded, later) ==
    IF later.raised \/ loaded.raised THEN later
    ELSE [raised |-> FALSE, templates |-> <<loaded.template>> \o later.templates]

\* for template_file in self.templates_path.glob("*.yaml")
RECURSIVE LoadTemplateFiles(_, _)
LoadTemplateFiles(files, i) ==
    IF i > Len(files) THEN [raised |-> FALSE, templates |-> <<>>]
    ELSE LoadOrSkip(LoadTemplate(files[i]), LoadTemplateFiles(files, i + 1))

get_templates(path) ==
    IF ~path.exists THEN [raised |-> FALSE, templates |-> builtin_templates]
    ELSE LET loaded == LoadTemplateFiles(path.files, 1)
         IN  IF loaded.raised THEN [raised |-> TRUE, templates |-> <<>>]
             ELSE [raised |-> FALSE, templates |-> builtin_templates \o loaded.templates]

\* next((t for t in templates if t.name == template_name), None)
FirstNamed(templates, template_name) ==
    LET hits == SelectSeq(templates, LAMBDA t : t.name = JStr(template_name))
    IN  IF hits = <<>> THEN NoConfig ELSE hits[1]

TemplateMetadata(template_name, app_name, namespace) ==
    [name |-> JStr(app_name \o "-config"), namespace |-> JStr(namespace),
     labels |-> [app |-> JStr(app_name), template |-> JStr(template_name)],
     annotations |-> Absent]

\* template.configuration.get("spec", {})
TemplateSpecOrDefault(template) ==
    IF template.configuration.spec = Absent THEN ConfigSpec(Absent, Absent)
    ELSE template.configuration.spec

TemplateSpec_Unmerged(app_name, spec) == ConfigSpec(JStr(app_name), Absent)

\* {"application": app_name, **spec}: a key of the template's spec
\* replaces the one written before it.
TemplateSpec(app_name, spec) ==
    ConfigSpec(IF spec.application = Absent THEN JStr(app_name) ELSE spec.application,
               spec.environments)

apply_template(path, template_name, app_name, namespace) ==
    LET templates == get_templates(path)
        template == FirstNamed(templates.templates, template_name)
    IN  IF templates.raised THEN [status |-> 500, config |-> NoConfig]
        ELSE IF template = NoConfig THEN [status |-> 404, config |-> NoConfig]
        ELSE [status |-> 200,
              config |-> ApplicationConfiguration(
                             TemplateMetadata(template_name, app_name, namespace),
                             TemplateSpec(app_name, TemplateSpecOrDefault(template)))]

GetTemplatesRoute ==
    LET r == get_templates(template_files)
    IN  /\ resp' = [NoResponse EXCEPT !.op = "get_templates",
                        !.status = IF r.raised THEN 500 ELSE 200,
                        !.body = [k |-> "templates", templates |-> r.templates],
                        !.t0 = now, !.t1 = now]
        /\ UNCHANGED <<store, now, git_repo, rest>>

ApplyTemplateRoute(template_name, application_name, namespace) ==
    LET r == apply_template(template_files, template_name, application_name, namespace)
    IN  /\ resp' = [NoResponse EXCEPT !.op = "apply_template",
                        !.input = [k |-> "apply", template_name |-> template_name,
                                   application_name |-> application_name,
                                   namespace |-> namespace],
                        !.status = r.status, !.body = r.config,
                        !.t0 = now, !.t1 = now]
        /\ UNCHANGED <<store, now, git_repo, rest>>

(***************************************************************************)
(* The catalog over a templates directory holding up to MaxFiles files.    *)
(***************************************************************************)
OneEnvironment == JMap(<<EnvEntry("dev", EnvironmentConfig(JInt(1), Absent))>>)

TemplateFileValues ==
    {[k |-> "unparsable"],
     ConfigurationTemplate(JStr("worker"), JStr("Background worker"), Absent,
                           TemplateConfiguration(ConfigSpec(Absent, OneEnvironment))),
     ConfigurationTemplate(JStr("worker"), JStr("Background worker"), JStr("worker"),
                           TemplateConfiguration(ConfigSpec(Absent, OneEnvironment))),
     ConfigurationTemplate(JStr("web-application"), JStr("Shadow"), JStr("web-app"),
                           TemplateConfiguration(ConfigSpec(Absent, OneEnvironment))),
     ConfigurationTemplate(JStr("cron"), JStr("Cron job"), JStr("cron-job"),
                           TemplateConfiguration(ConfigSpec(JStr("other"), Absent))),
     ConfigurationTemplate(JStr("bare"), JStr("No spec"), JStr("worker"),
                           TemplateConfiguration(Absent))}

TemplateNames == {"web-application", "api-service", "worker", "cron", "bare", "missing"}

ApplicationNames == {"foo", "bar"}

RECURSIVE FileSeqs(_)
FileSeqs(n) ==
    IF n = 0 THEN {<<>>}
    ELSE FileSeqs(n - 1)
         \cup {Append(fs, f) : fs \in {x \in FileSeqs(n - 1) : Len(x) = n - 1},
                               f \in TemplateFileValues}

InitTemplates ==
    /\ store \in {[id \in Ids |-> NoConfig],
                  [id \in Ids |-> IF id = <<"cfg1", "ns1">> THEN StoredBefore ELSE NoConfig]}
    /\ now = 0
    /\ git_repo \in BOOLEAN
    /\ resp = NoResponse
    /\ template_files \in {NoTemplatesPath}
                          \cup {[exists |-> TRUE, files |-> fs] : fs \in FileSeqs(MaxFiles)}
    /\ job = NoJob
    /\ clients = NoClients
    /\ engine = NoEngine
    /\ windmill_client = ImportedClient

GetTemplates == GetTemplatesRoute

ApplyTemplate ==
    \E t \in TemplateNames, a \in ApplicationNames, ns \in Namespaces :
        ApplyTemplateRoute(t, a, ns)

NextTemplates == GetTemplates \/ ApplyTemplate

SpecTemplates == InitTemplates /\ [][NextTemplates]_vars

(***************************************************************************)
(* Properties of the template catalog                                      *)
(***************************************************************************)
Applied == resp.op = "apply_template" /\ resp.status = 200

\* The templates of the current catalog: the built-ins and every
\* well-formed template file.
WellFormedFile(f) ==
    /\ f.k = "template"
    /\ f.name # Absent /\ f.description # Absent /\ f.type # Absent /\ f.configuration # Absent

Catalog ==
    {BuiltinWebApplication, BuiltinApiService}
    \cup (IF template_files.exists
          THEN {template_files.files[i] : i \in {j \in 1..Len(template_files.files) :
                                                    WellFormedFile(template_files.files[j])}}
          ELSE {})

WebApplicationEnvironments ==
    JMap(<<EnvEntry("development",
               [k |-> "env", replicas |-> JInt(1),
                resources |-> Resources(ResourceRequirements(JStr("100m"), JStr("128Mi")),
                                        ResourceRequirements(JStr("500m"), JStr("512Mi")))]),
           EnvEntry("production",
               [k |-> "env", replicas |-> JInt(3),
                resources |-> Resources(ResourceRequirements(JStr("500m"), JStr("512Mi")),
                                        ResourceRequirements(JStr("1000m"), JStr("1Gi")))])>>)

C15_WitnessNotFound ==
    /\ resp.op = "apply_template" /\ resp.status = 404
    /\ template_files.exists
    /\ \E i \in 1..Len(template_files.files) : ~WellFormedFile(template_files.files[i])

(***************************************************************************)
(* Workflow job client: WindmillClient.run_flow and _wait_for_completion   *)
(***************************************************************************)
\* max_wait, the default of _wait_for_completion, in seconds.
MaxWait == 300

\* time.sleep(5) after a 404.
SleepInterval == 5

\* The longest run of 404 answers the engine gives before its final answer.
MaxNotFound == 61

\* The longest time, in seconds, a request to the engine takes.
MaxLatency == 1

Response(status_code) == [k |-> "response", status_code |-> status_code]

\* requests.RequestException raised by the session.
RequestException == [k |-> "exception"]

\* The body of a completed job's status response.
JobResult == [result |-> JStr("done"), logs |-> Absent]

SuccessResult_NoJobId(job_id, job_result) ==
    [success |-> TRUE, job_id |-> Absent,
     result |-> IF job_result.result = Absent THEN JMap(<<>>) ELSE job_result.result,
     logs |-> IF job_result.logs = Absent THEN JMap(<<>>) ELSE job_result.logs]

\* job_result.get("result", {}), job_result.get("logs", [])
SuccessResult(job_id, job_result) ==
    [success |-> TRUE, job_id |-> job_id,
     result |-> IF job_result.result = Absent THEN JMap(<<>>) ELSE job_result.result,
     logs |-> IF job_result.logs = Absent THEN JMap(<<>>) ELSE job_result.logs]

FailureResult(error) == [success |-> FALSE, error |-> error]

NoJobId == "No job ID returned"

RequestFailed == "Request failed"

JobFailedWithStatus == "Job failed with status"

ErrorCheckingJobStatus == "Error checking job status"

JobTimeout == "Job timeout"

HasJobId_Always(job_id) == TRUE

\* if not job_id
HasJobId(job_id) == Truthy(job_id)

WithinWait_Inclusive(elapsed, max_wait) == elapsed <= max_wait

\* while time.time() - start_time < max_wait
WithinWait(elapsed, max_wait) == elapsed < max_wait

PollResponse_RetryOnAny(response) ==
    IF response.k = "exception" THEN "error"
    ELSE IF response.status_code = 200 THEN "completed"
    ELSE "retry"

\* What the loop does with the answer to a status request.
PollResponse(response) ==
    IF response.k = "exception" THEN "error"
    ELSE IF response.status_code = 200 THEN "completed"
    ELSE IF response.status_code = 404 THEN "retry"
    ELSE "failed"

\* The engine's answer to the status request that follows `polls` earlier
\* ones: 404 while the job runs, then its final answer.
StatusAnswer(polls) ==
    IF polls < engine.notfound THEN Response(404) ELSE engine.final

IdleJob ==
    [pc |-> "idle", at |-> "none", job_id |-> Absent, start |-> 0, clock |-> 0,
     polls |-> 0, retries |-> 0, slept |-> 0, issued_at |-> 0,
     last |-> [k |-> "none"], result |-> NoConfig]

\* run_flow posts the job.
RunFlow ==
    /\ job.pc = "idle"
    /\ job' = [job EXCEPT !.pc = "submitted"]
    /\ UNCHANGED <<store, now, git_repo, resp, template_files, clients, engine, windmill_client>>

\* The answer to the post arrives: a transport error or an error status
\* raises RequestException; a body without a job id ends the call;
\* otherwise _wait_for_completion starts its clock.
SubmitReturns ==
    /\ job.pc = "submitted"
    /\ LET arrived == job.clock + engine.latency
       IN  job' =
             IF engine.submit # "ok"
             THEN [job EXCEPT !.pc = "done", !.clock = arrived,
                              !.result = FailureResult(RequestFailed)]
             ELSE IF ~HasJobId(engine.uuid)
             THEN [job EXCEPT !.pc = "done", !.clock = arrived,
                              !.result = FailureResult(NoJobId)]
             ELSE [job EXCEPT !.pc = "polling", !.at = "check", !.clock = arrived,
                              !.start = arrived, !.job_id = engine.uuid]
    /\ UNCHANGED <<store, now, git_repo, resp, template_files, clients, engine, windmill_client>>

\* One pass of the loop whose condition holds: the status request and the
\* branch its answer selects.
StatusRequest ==
    /\ job.pc = "polling" /\ job.at = "check"
    /\ WithinWait(job.clock - job.start, MaxWait)
    /\ LET response == StatusAnswer(job.polls)
           asked == [job EXCEPT !.polls = @ + 1, !.last = response,
                                !.issued_at = job.clock - job.start,
                                !.clock = @ + engine.latency]
           todo == PollResponse(response)
       IN  job' =
             CASE todo = "completed" ->
                    [asked EXCEPT !.pc = "done", !.at = "none",
                                  !.result = SuccessResult(job.job_id, JobResult)]
               [] todo = "retry" -> [asked EXCEPT !.at = "sleep"]
               [] todo = "failed" ->
                    [asked EXCEPT !.pc = "done", !.at = "none",
                                  !.result = FailureResult(JobFailedWithStatus)]
               [] todo = "error" ->
                    [asked EXCEPT !.pc = "done", !.at = "none",
                                  !.result = FailureResult(ErrorCheckingJobStatus)]
    /\ UNCHANGED <<store, now, git_repo, resp, template_files, clients, engine, windmill_client>>

\* time.sleep(5); continue
Sleep ==
    /\ job.pc = "polling" /\ job.at = "sleep"
    /\ job' = [job EXCEPT !.at = "check", !.clock = @ + SleepInterval,
                          !.slept = @ + SleepInterval, !.retries = @ + 1]
    /\ UNCHANGED <<store, now, git_repo, resp, template_files, clients, engine, windmill_client>>

\* The loop condition fails: return after the loop.
Timeout ==
    /\ job.pc = "polling" /\ job.at = "check"
    /\ ~WithinWait(job.clock - job.start, MaxWait)
    /\ job' = [job EXCEPT !.pc = "done", !.at = "none", !.result = FailureResult(JobTimeout)]
    /\ UNCHANGED <<store, now, git_repo, resp, template_files, clients, engine, windmill_client>>

(***************************************************************************)
(* One run_flow call against an engine whose behaviour is fixed up front.  *)
(***************************************************************************)
FinalAnswers == {Response(200), Response(500), RequestException}

UuidValues == {Absent, Null, JStr(""), JStr("job-1")}

Engines ==
    {[submit |-> "ok", uuid |-> JStr("job-1"), notfound |-> n, final |-> f, latency |-> l] :
        n \in 0..MaxNotFound, f \in FinalAnswers, l \in 0..MaxLatency}
    \cup {[submit |-> sub, uuid |-> u, notfound |-> 0, final |-> Response(200), latency |-> l] :
            sub \in {"ok", "http_error", "transport_error"}, u \in UuidValues,
            l \in 0..MaxLatency}

InitPoll ==
    /\ store = [id \in Ids |-> NoConfig]
    /\ now = 0
    /\ git_repo = FALSE
    /\ resp = NoResponse
    /\ template_files = NoTemplatesPath
    /\ clients = NoClients
    /\ job = IdleJob
    /\ engine \in Engines
    /\ windmill_client = ImportedClient

NextPoll == RunFlow \/ SubmitReturns \/ StatusRequest \/ Sleep \/ Timeout

SpecPoll == InitPoll /\ [][NextPoll]_vars

\* Every HTTP request returns and the calling thread keeps running.
SpecPollFair == SpecPoll /\ WF_vars(NextPoll)

(***************************************************************************)
(* Properties of the job client                                            *)
(***************************************************************************)
Done == job.pc = "done"

\* run_flow got a job id and called _wait_for_completion.
Polled == job.job_id # Absent

Completed == Done /\ job.result.success

TimedOut == Done /\ ~job.result.success /\ job.result.error = JobTimeout

JobFailed == Done /\ ~job.result.success /\ job.result.error # JobTimeout

\* The engine answers 404 to the first N status requests and 200 to the next.
SucceedsAfter(n) == engine.notfound = n /\ engine.final = Response(200)

SucceededAfterRetries ==
    /\ Completed
    /\ job.result.job_id = engine.uuid
    /\ job.result.result = JobResult.result
    /\ job.retries = engine.notfound
    /\ job.polls = engine.notfound + 1
    /\ job.slept = SleepInterval * engine.notfound

\* C16 as stated: for every N, when the engine answers 404 to the first N
\* status requests and then 200, run_flow ends with the success result
\* carrying the job id, after N retries, N + 1 status requests and N sleeps
\* of 5 seconds.
C16_SuccessAfterNRetries ==
    Done /\ Polled /\ engine.final = Response(200) => SucceededAfterRetries

\* C16 amended: the same for every N whose N sleeps and N requests end
\* before max_wait has elapsed; for any larger N run_flow ends with
\* "Job timeout" and never sees the success answer.
C16_SuccessWithinWait ==
    Done /\ Polled /\ engine.final = Response(200) =>
        IF engine.notfound * (SleepInterval + engine.latency) < MaxWait
        THEN SucceededAfterRetries
        ELSE TimedOut /\ job.last = Response(404)

\* The largest N that still succeeds when requests take no time: 59
\* retries, 60 status requests, 295 seconds asleep.
C16_Witness ==
    /\ Completed
    /\ engine.latency = 0
    /\ (engine.notfound + 1) * SleepInterval = MaxWait
    /\ job.polls = engine.notfound + 1
    /\ job.slept = MaxWait - SleepInterval

\* C17: when every status request made was answered 404, the call ends
\* with "Job timeout"; the bound had elapsed by then, every request was
\* issued before it had, and at most ceil(max_wait / 5) requests were made.
C17_TimeoutBounded ==
    /\ job.polls > 0 => job.issued_at < MaxWait
    /\ job.polls <= (MaxWait + SleepInterval - 1) \div SleepInterval
    /\ (Done /\ Polled /\ job.polls <= engine.notfound =>
           /\ TimedOut
           /\ job.clock - job.start >= MaxWait
           /\ job.last = Response(404))
    /\ (Done /\ Polled /\ job.polls <= engine.notfound /\ engine.latency = 0 =>
           job.polls = (MaxWait + SleepInterval - 1) \div SleepInterval)

\* Sixty requests that took no time, all answered 404, then the timeout.
C17_Witness ==
    /\ TimedOut
    /\ engine.latency = 0
    /\ job.polls = 60
    /\ job.issued_at = MaxWait - SleepInterval
    /\ job.clock - job.start = MaxWait

\* C18: a status request is followed by another only when it was answered
\* 404; an answer other than 200 and 404, or a transport error, ends the
\* call at once as failed; a call whose last answer was 404 never ends as
\* failed.
C18_RetryOnlyOnNotFound ==
    [][/\ (job'.polls > job.polls /\ job.polls > 0 => job.last = Response(404))
       /\ (job'.polls > job.polls /\ job'.last \notin {Response(200), Response(404)} =>
              job'.pc = "done" /\ ~job'.result.success /\ job'.result.error # JobTimeout)
       /\ (job'.polls > job.polls /\ job'.last = Response(404) => job'.pc = "polling")
       /\ (job'.pc = "done" /\ job.pc = "polling" /\ job'.last = Response(404) =>
              job'.result = FailureResult(JobTimeout))]_vars

\* Two 404 answers, each followed by a sleep and a new request, then a
\* 500 answer that ended the call as failed.
C18_Witness ==
    /\ JobFailed
    /\ job.last = Response(500)
    /\ job.polls = 3 /\ job.retries = 2
    /\ job.result.error = JobFailedWithStatus

Terminal(j) == j.pc = "done"

\* C19: a call goes idle -> submitted -> polling -> done or
\* submitted -> done; polling is entered only from a submit that was
\* answered with a job id; a submit that failed or carried no job id ends
\* as failed with no status request; a finished call is exactly one of
\* completed, failed and timed out and never changes again; and every
\* call finishes.
C19_Lifecycle ==
    /\ [][/\ (Terminal(job) => job' = job)
          /\ (job'.pc # job.pc =>
                 <<job.pc, job'.pc>> \in {<<"idle", "submitted">>, <<"submitted", "polling">>,
                                          <<"submitted", "done">>, <<"polling", "done">>})
          /\ (job'.pc = "polling" /\ job.pc = "submitted" =>
                 engine.submit = "ok" /\ engine.uuid \notin {Absent, Null, JStr("")})
          /\ (job'.polls > job.polls => job.pc = "polling")]_vars
    /\ [](Done =>
            /\ Cardinality({o \in {"completed", "failed", "timed-out"} :
                               \/ o = "completed" /\ Completed
                               \/ o = "failed" /\ JobFailed
                               \/ o = "timed-out" /\ TimedOut}) = 1
            /\ (Completed <=> Polled /\ job.last = Response(200))
            /\ (engine.submit # "ok" \/ engine.uuid \in {Absent, Null, JStr("")} =>
                   JobFailed /\ job.polls = 0))
    /\ <>Done

\* A submit answered without a job id ended as failed with no status
\* request.
C19_Witness ==
    /\ JobFailed
    /\ engine.submit = "ok" /\ engine.uuid = Null
    /\ job.polls = 0
    /\ job.result.error = NoJobId

(***************************************************************************)
(* Two clients updating one configuration.  A handler stamps the body when *)
(* it starts and patches the backend when it finishes; handlers of         *)
(* different requests may run in different workers, so other requests can  *)
(* start or finish in between.                                             *)
(***************************************************************************)
Shared == <<"cfg1", "ns1">>

EnvProduction == JMap(<<EnvEntry("prod", EnvironmentConfig(JInt(1), Absent))>>)

UpdateBodies ==
    {ApplicationConfiguration(Metadata(Absent, Absent, Absent), ConfigSpec(JStr(b[1]), b[2])) :
        b \in {<<"one", EnvWarning>>, <<"two", EnvWarning>>, <<"two", EnvProduction>>}}

NewClient(config) ==
    [pc |-> "sent", input |-> config, t |-> 0, saw |-> 0, status |-> 0,
     backend |-> "not_called", body |-> NoConfig, turn |-> 0]

\* The number of patches the backend has applied.
Writes == Cardinality({c \in DOMAIN clients : clients[c].turn > 0})

InitConcurrent ==
    /\ store = [id \in Ids |-> IF id = Shared THEN StoredBefore ELSE NoConfig]
    /\ now = 0
    /\ git_repo \in BOOLEAN
    /\ resp = NoResponse
    /\ template_files = NoTemplatesPath
    /\ job = NoJob
    /\ engine = NoEngine
    /\ windmill_client = ImportedClient
    /\ clients \in {<<NewClient(b[1]), NewClient(b[2])>> :
                      b \in {x \in UpdateBodies \X UpdateBodies : x[1] # x[2]}}

\* The route takes the identity from the path and the handler stamps the
\* body.
BeginUpdate(c) ==
    /\ clients[c].pc = "sent"
    /\ clients' = [clients EXCEPT ![c].pc = "handling",
                       ![c].input = [clients[c].input EXCEPT
                                        !.metadata.name = JStr(Shared[1]),
                                        !.metadata.namespace = JStr(Shared[2])],
                       ![c].t = now, ![c].saw = Writes]
    /\ UNCHANGED <<store, now, git_repo, resp, template_files, job, engine, windmill_client>>

\* The handler patches the backend, syncs and answers.
FinishUpdate(c, fault, outcome) ==
    /\ clients[c].pc = "handling"
    /\ LET r == update_configuration(store, git_repo, clients[c].input, fault, outcome,
                                     clients[c].t)
       IN  /\ store' = r.store
           /\ clients' = [clients EXCEPT ![c].pc = "done", ![c].status = r.status,
                              ![c].backend = r.backend, ![c].body = r.body,
                              ![c].turn = IF r.backend = "ok" THEN Writes + 1 ELSE 0]
    /\ UNCHANGED <<now, git_repo, resp, template_files, job, engine, windmill_client>>

Begin == \E c \in DOMAIN clients : BeginUpdate(c)

Finish ==
    \E c \in DOMAIN clients, fault \in Faults, outcome \in SyncOutcomes :
        FinishUpdate(c, fault, outcome)

NextConcurrent == Begin \/ Finish \/ Tick

SpecConcurrent == InitConcurrent /\ [][NextConcurrent]_vars

(***************************************************************************)
(* Properties of concurrent updates                                        *)
(***************************************************************************)
BothAccepted ==
    \A c \in DOMAIN clients : clients[c].pc = "done" /\ clients[c].backend = "ok"

\* C20: when the backend accepted both updates, both clients were answered
\* 200, and the store holds what the update applied last produced: the
\* resource returned to that client, with that client's application and
\* last-modified stamp.
C20_LastWriteWins ==
    BothAccepted =>
        /\ \A c \in DOMAIN clients : clients[c].status = 200
        /\ \E c \in DOMAIN clients :
              /\ clients[c].turn = Len(clients)
              /\ store[Shared] = clients[c].body
              /\ store[Shared].spec.application = clients[c].input.spec.application
              /\ AnnotationOf(store[Shared], "lastModified") = JTime(clients[c].t)

\* A lost update: both handlers started before either patch was applied,
\* both clients were answered 200, and the store holds the second
\* client's application, not the first's.
C20_Witness ==
    /\ BothAccepted
    /\ \A c \in DOMAIN clients : clients[c].status = 200 /\ clients[c].saw = 0
    /\ \E c, e \in DOMAIN clients :
          /\ clients[c].turn = 1 /\ clients[e].turn = 2
          /\ clients[c].input.spec.application # clients[e].input.spec.application
          /\ store[Shared].spec.application = clients[e].input.spec.application
          /\ clients[c].body.spec.application = clients[c].input.spec.application

(***************************************************************************)
(* Properties of the order of store write and mirror operation             *)
(***************************************************************************)
Mutation == resp.op \in {"create", "update", "delete"}

\* The mirror was reached: git_repo is set and the sync or removal ran.
MirrorAttempted == resp.sync \in SyncOutcomes

\* C21: in create, update and delete the mirror is reached only when the
\* store write of that operation succeeded, and the store then already
\* holds the outcome of that write; when the write failed, the delete of
\* an absent target included, the mirror function is not even called.
C21_MirrorAfterWrite ==
    Mutation =>
        /\ (MirrorAttempted =>
               /\ resp.backend = "ok" /\ git_repo
               /\ (resp.op = "delete" => store[resp.id] = NoConfig)
               /\ (resp.op # "delete" => store[resp.id] = resp.body))
        /\ (resp.backend # "ok" => resp.sync = "not_called")
        /\ (resp.backend = "ok" /\ git_repo => MirrorAttempted)

\* A delete of an absent configuration with the mirror configured: answered
\* 200 and the mirror not touched.
C21_Witness ==
    /\ resp.op = "delete" /\ resp.backend = "404" /\ resp.status = 200
    /\ git_repo
    /\ resp.sync = "not_called"

\* C22: the configuration a successful apply_template returns has
\* spec.application equal to the requested application name, like its
\* metadata name appName-config and its app label, whatever the template.
C22_ApplicationIsAppName ==
    Applied =>
        /\ resp.body.spec.application = JStr(resp.input.application_name)
        /\ resp.body.metadata.name = JStr(resp.input.application_name \o "-config")
        /\ resp.body.metadata.labels.app = JStr(resp.input.application_name)

(***************************************************************************)
(* Agent tool factories: get_idp_tools, create_idp_agent_tools, and a      *)
(* tool's _run up to the submission of its flow.                           *)
(***************************************************************************)
SubmittingTool(name, flow_path) == [name |-> name, submits |-> TRUE, flow_path |-> flow_path]

\* PlatformConfigTool answers with a placeholder text and calls no flow.
PlaceholderTool(name) == [name |-> name, submits |-> FALSE, flow_path |-> ""]

\* The module-level list every factory call returns.
idp_platform_tools ==
    <<SubmittingTool("platform_bootstrap", "f/idp/bootstrap-platform"),
      SubmittingTool("platform_operations", "f/idp/platform-operations"),
      SubmittingTool("platform_health_check", "f/idp/platform-operations"),
      PlaceholderTool("platform_configuration")>>

\* A client fixed when the tools are built.
ToolClient_BoundAtImport(current) == ImportedClient

\* A tool's _run reads the module global windmill_client when it runs.
ToolClient(current) == current

\* The post of run_flow: where it goes and what it carries.
Submission(client, flow_path, args) ==
    [k |-> "submission", base_url |-> client.config.base_url,
     workspace |-> client.config.workspace, flow_path |-> flow_path, args |-> args,
     authorization |-> client.authorization, timeout |-> client.config.timeout]

\* if windmill_config: replace the global client; return the list.
get_idp_tools(current, windmill_config) ==
    [client |-> IF Truthy(windmill_config) THEN WindmillClient(windmill_config) ELSE current,
     tools |-> idp_platform_tools]

create_idp_agent_tools(current, windmill_url, windmill_token, workspace) ==
    get_idp_tools(current, WindmillConfig(windmill_url, windmill_token, workspace))

\* resp.config carries the configuration given by the most recent factory
\* call that passed one.
GetIdpTools(windmill_config) ==
    LET r == get_idp_tools(windmill_client, windmill_config)
    IN  /\ windmill_client' = r.client
        /\ resp' = [NoResponse EXCEPT !.op = "get_idp_tools", !.input = windmill_config,
                        !.config = IF windmill_config = Null THEN resp.config
                                   ELSE windmill_config,
                        !.status = 200, !.body = [k |-> "tools", tools |-> r.tools]]
        /\ UNCHANGED <<store, now, git_repo, template_files, job, clients, engine>>

CreateIdpAgentTools(windmill_url, windmill_token, workspace) ==
    LET r == create_idp_agent_tools(windmill_client, windmill_url, windmill_token, workspace)
    IN  /\ windmill_client' = r.client
        /\ resp' = [NoResponse EXCEPT !.op = "create_idp_agent_tools",
                        !.input = WindmillConfig(windmill_url, windmill_token, workspace),
                        !.config = WindmillConfig(windmill_url, windmill_token, workspace),
                        !.status = 200, !.body = [k |-> "tools", tools |-> r.tools]]
        /\ UNCHANGED <<store, now, git_repo, template_files, job, clients, engine>>

\* A tool of a list returned earlier is run; flag is its dry_run (or, for
\* the health check, comprehensive) argument.
InvokeTool(i, flag) ==
    LET tool == idp_platform_tools[i]
    IN  /\ resp.op # "none"
        /\ resp' = [NoResponse EXCEPT !.op = "tool",
                        !.input = [k |-> "tool", name |-> tool.name, flag |-> flag],
                        !.config = resp.config, !.status = 200,
                        !.body = IF tool.submits
                                 THEN Submission(ToolClient(windmill_client), tool.flow_path,
                                                 [flag |-> flag])
                                 ELSE NoConfig]
        /\ UNCHANGED <<store, now, git_repo, template_files, job, clients, engine,
                       windmill_client>>

WindmillUrls == {"http://localhost:8000", "http://windmill:8000"}

WindmillTokens == {Null, JStr(""), JStr("secret")}

Workspaces == {"idp", "ops"}

WindmillConfigs ==
    {WindmillConfig(u, t, w) : u \in WindmillUrls, t \in WindmillTokens, w \in Workspaces}

InitTools ==
    /\ store = [id \in Ids |-> NoConfig]
    /\ now = 0
    /\ git_repo = FALSE
    /\ resp = [NoResponse EXCEPT !.config = DefaultWindmillConfig]
    /\ template_files = NoTemplatesPath
    /\ job = NoJob
    /\ clients = NoClients
    /\ engine = NoEngine
    /\ windmill_client = ImportedClient

GetTools == \E c \in {Null} \cup WindmillConfigs : GetIdpTools(c)

CreateTools ==
    \E u \in WindmillUrls, t \in WindmillTokens, w \in Workspaces : CreateIdpAgentTools(u, t, w)

Invoke == \E i \in 1..Len(idp_platform_tools), flag \in BOOLEAN : InvokeTool(i, flag)

NextTools == GetTools \/ CreateTools \/ Invoke

SpecTools == InitTools /\ [][NextTools]_vars

(***************************************************************************)
(* Properties of the shared client                                         *)
(***************************************************************************)
\* C23: every factory call returns the one module-level tool list; the
\* process-wide client is always the one built from the configuration of
\* the most recent factory call that passed one (the import-time default
\* before any did), a call without a configuration leaves it as it was,
\* and every flow a tool submits goes to that configuration's URL and
\* workspace with its token.
C23_SharedClient ==
    /\ windmill_client.config = resp.config
    /\ (resp.op \in {"get_idp_tools", "create_idp_agent_tools"} =>
           resp.body.tools = idp_platform_tools)
    /\ (resp.op = "tool" /\ resp.body # NoConfig =>
           /\ resp.body.base_url = resp.config.base_url
           /\ resp.body.workspace = resp.config.workspace
           /\ resp.body.authorization =
                 (IF resp.config.token \in {Null, JStr("")} THEN Absent
                  ELSE JStr("Bearer " \o resp.config.token.s)))

\* A tool submitted to a configuration that is not the default, after a
\* factory call replaced the client.
C23_Witness ==
    /\ resp.op = "tool"
    /\ resp.body # NoConfig
    /\ resp.body.base_url = "http://windmill:8000"
    /\ resp.body.workspace = "ops"
    /\ resp.body.authorization = JStr("Bearer secret")
    /\ resp.config # DefaultWindmillConfig

====
